---- MODULE Spec2Model ----
(***************************************************************************)
(* Model of uri2sql.js: the translation of a parsed HTTP query object into *)
(* an SQL predicate with bind placeholders, and the process-wide           *)
(* placeholder symbol set by setsubs.                                      *)
(*                                                                         *)
(* Representation.  A JavaScript string is a sequence of pieces.  Every    *)
(* character the code inspects ("-", "$", ":", "'", ";", a digit) is a     *)
(* piece of its own; a run of other characters (an operator name, an SQL   *)
(* keyword) may be one piece.  The sql text is the sequence of the         *)
(* fragments the code appends, in append order: a fragment is a literal of *)
(* the code (kw), an operator text of the table (op), a column name taken  *)
(* from the input (col) or a placeholder subs + substitution (ph).         *)
(* A JavaScript object is the sequence of its entries in for-in order      *)
(* (insertion order; no key of the model is integer-like).                 *)
(***************************************************************************)
EXTENDS Integers, Sequences, FiniteSets, TLC

\* ------------------------------------------------------------------ bounds
MaxEntries == 2     \* entries of a query object
MaxPairs == 2       \* operator pairs of a column's sub-object

\* ------------------------------------------------------- JavaScript values
\* t is the typeof of a primitive ("string", "number"), "object" for a plain
\* object with its entries in ops, "Number" for the object new Number(..) makes.
Str(s) == [t |-> "string", s |-> s, n |-> 0, ops |-> <<>>]
Num(n) == [t |-> "number", s |-> <<>>, n |-> n, ops |-> <<>>]
Obj(ops) == [t |-> "object", s |-> <<>>, n |-> 0, ops |-> ops]
NumberObj(n) == [t |-> "Number", s |-> <<>>, n |-> n, ops |-> <<>>]
Undefined == [t |-> "undefined", s |-> <<>>, n |-> 0, ops |-> <<>>]

Digits == {"0", "1", "2", "3", "4", "5", "6", "7", "8", "9"}

DigitVal(c) ==
  CASE c = "0" -> 0 [] c = "1" -> 1 [] c = "2" -> 2 [] c = "3" -> 3
    [] c = "4" -> 4 [] c = "5" -> 5 [] c = "6" -> 6 [] c = "7" -> 7
    [] c = "8" -> 8 [] c = "9" -> 9

RECURSIVE DigitsValue(_)
DigitsValue(s) ==
  IF s = <<>> THEN 0
  ELSE DigitsValue(SubSeq(s, 1, Len(s) - 1)) * 10 + DigitVal(s[Len(s)])

IsDigits(s) == Len(s) > 0 /\ \A i \in 1..Len(s) : s[i] \in Digits

\* Number(param) of a string: the empty string is 0, an optionally signed run
\* of decimal digits is its value, anything else made of the pieces of the
\* model is NaN.  (Blanks, ".", exponents, hex and Infinity do not occur in
\* the inputs drawn.)
StringToNumber(s) ==
  IF s = <<>> THEN [nan |-> FALSE, n |-> 0]
  ELSE IF IsDigits(s) THEN [nan |-> FALSE, n |-> DigitsValue(s)]
  ELSE IF s[1] \in {"-", "+"} /\ IsDigits(Tail(s))
    THEN [nan |-> FALSE, n |-> IF s[1] = "-" THEN 0 - DigitsValue(Tail(s))
                                            ELSE DigitsValue(Tail(s))]
  ELSE [nan |-> TRUE, n |-> 0]

ToNumber(param) ==
  IF param.t = "number" THEN [nan |-> FALSE, n |-> param.n]
  ELSE StringToNumber(param.s)

Includes(s, c) == \E i \in 1..Len(s) : s[i] = c

CharAt0(s) == IF Len(s) = 0 THEN "" ELSE s[1]

Substring1(s) == IF Len(s) = 0 THEN <<>> ELSE Tail(s)

RECURSIVE Split(_)
Split(s) ==
  IF ~Includes(s, ":") THEN <<s>>
  ELSE LET i == CHOOSE k \in 1..Len(s) :
                  s[k] = ":" /\ \A j \in 1..(k - 1) : s[j] # ":"
       IN <<SubSeq(s, 1, i - 1)>> \o Split(SubSeq(s, i + 1, Len(s)))

\* ------------------------------------------------------------------ getValue
NULLstr == <<"N", "U", "L", "L">>

Returned(v) == [err |-> "none", v |-> v]
Thrown(e) == [err |-> e, v |-> Undefined]

getValueNoSanitise(param) ==
  IF param.t = "string" /\ Len(param.s) = 0 THEN Thrown("MissingValue")
  ELSE IF ~ToNumber(param).nan THEN Returned(NumberObj(ToNumber(param).n))
  ELSE Returned(param)

getValue(param) ==
  IF param.t = "string" /\ Len(param.s) = 0 THEN Thrown("MissingValue")
  ELSE IF ~ToNumber(param).nan THEN Returned(NumberObj(ToNumber(param).n))
  ELSE IF param.t = "string" /\ param.s = NULLstr THEN Returned(param)
  ELSE IF param.t = "string" THEN
    IF Includes(param.s, "'") \/ Includes(param.s, ";")
      THEN Thrown("InvalidValue")
      ELSE Returned(param)
  ELSE Returned(Undefined)

\* ------------------------------------------------------------------ checkCol
\* The columns argument: not supplied (undefined) or an array of records.
Absent == [given |-> FALSE, recs |-> <<>>]
Given(recs) == [given |-> TRUE, recs |-> recs]

checkCol(colName, columns) ==
  IF ~columns.given THEN "TypeError"          \* undefined.length
  ELSE IF Len(columns.recs) > 0
          /\ ~\E i \in 1..Len(columns.recs) : columns.recs[i].column_name = colName
    THEN "UnknownColumn"
  ELSE "none"

\* ------------------------------------------------------------ operator table
operators ==
  << <<"eq">>, <<"ne">>, <<"lt">>, <<"gte">>, <<"gt">>, <<"lte">>, <<"in">>,
     <<"like">>, <<"tween">>, <<"is">> >>

sqlop ==
  << <<"= ", "!= ", "< ", ">= ", "> ", "<= ", "IN (", "LIKE ", "BETWEEN ", "IS ">>,
     <<"!= ", "= ", ">= ", "< ", "<= ", "> ", "NOT IN (", "NOT LIKE ",
       "NOT BETWEEN ", "IS NOT ">> >>

OperatorsIncludes(o) == \E i \in 1..Len(operators) : operators[i] = o
OperatorsIndexOf(o) == CHOOSE i \in 1..Len(operators) : operators[i] = o

\* ------------------------------------------------------------- sql fragments
Kw(text) == [k |-> "kw", s |-> <<text>>, n |-> 0]
OpText(text) == [k |-> "op", s |-> <<text>>, n |-> 0]
Col(name) == [k |-> "col", s |-> name, n |-> 0]

PlaceholderDefault(symbol, number) == [k |-> "ph", s |-> <<"$">>, n |-> number]

Placeholder(symbol, number) == [k |-> "ph", s |-> symbol, n |-> number]

\* the text of a fragment is empty: a placeholder always holds its number
FragEmpty(f) == f.k # "ph" /\ \A i \in 1..Len(f.s) : f.s[i] = ""
IsEmptyText(frags) == \A i \in 1..Len(frags) : FragEmpty(frags[i])

\* ------------------------------------------------- the locals of one uri2sql
Locals0 ==
  [sql |-> <<>>, sort |-> <<>>, valueArray |-> <<>>, substitution |-> 1,
   negate |-> 0, err |-> "none"]

EmitPhNoIncrement(st, symbol) ==
  [st EXCEPT !.sql = Append(@, Placeholder(symbol, st.substitution))]

Throw(st, e) == [st EXCEPT !.err = e]
Emit(st, frags) == [st EXCEPT !.sql = @ \o frags]
Push(st, v) == [st EXCEPT !.valueArray = Append(@, v)]
EmitPh(st, symbol) ==
  [st EXCEPT !.sql = Append(@, Placeholder(symbol, st.substitution)),
             !.substitution = @ + 1]

\* ------------------------------------------------------------------- $sort
SortStep(st, seg, columns) ==
  LET desc == CharAt0(seg) = "-"
      sortCol == IF desc THEN Substring1(seg) ELSE seg
      chk == checkCol(sortCol, columns)
  IN IF chk # "none" THEN Throw(st, chk)
     ELSE [st EXCEPT !.sort =
             @ \o (IF IsEmptyText(st.sort) THEN <<Kw("ORDER BY ")>> ELSE <<Kw(", ")>>)
               \o <<Col(sortCol)>> \o (IF desc THEN <<Kw(" DESC")>> ELSE <<>>)]

RECURSIVE SortLoop(_, _, _, _)
SortLoop(st, sortCols, i, columns) ==
  IF st.err # "none" \/ i > Len(sortCols) THEN st
  ELSE SortLoop(SortStep(st, sortCols[i], columns), sortCols, i + 1, columns)

SortEntry(st, val, columns) ==
  IF val.t # "string" THEN Throw(st, "InvalidSort")
  ELSE LET g == getValue(val)
       IN IF g.err # "none" THEN Throw(st, g.err)
          ELSE IF g.v.t # "string" THEN Throw(st, "TypeError")  \* Number has no split
          ELSE SortLoop(st, Split(g.v.s), 1, columns)

\* ---------------------------------------------------------- operator pairs
TweenPair(st, val, symbol) ==
  LET s1 == Emit(EmitPh(st, symbol), <<Kw(" AND ")>>)
      s2 == Emit(EmitPh(s1, symbol), <<Kw(" ")>>)
      g == getValue(val)
  IN IF g.err # "none" THEN Throw(s2, g.err)
     ELSE IF g.v.t # "string" THEN Throw(s2, "TypeError")
     ELSE LET varr == Split(g.v.s)
          IN IF Len(varr) >= 2
               THEN Push(Push(s2, Str(varr[1])), Str(varr[2]))
               ELSE Throw(Push(s2, Str(varr[1])), "MissingValue")

RECURSIVE InLoop(_, _, _, _)
InLoop(st, segs, i, symbol) ==
  IF i > Len(segs) THEN st
  ELSE InLoop(Push(EmitPh(IF i = 1 THEN st ELSE Emit(st, <<Kw(", ")>>), symbol),
                   Str(segs[i])),
              segs, i + 1, symbol)

InPair(st, val, symbol) ==
  LET g == getValue(val)
  IN IF g.err # "none" THEN Throw(st, g.err)
     ELSE IF g.v.t # "string" THEN Throw(st, "TypeError")
     ELSE Emit(InLoop(st, Split(g.v.s), 1, symbol), <<Kw(") ")>>)

OtherPair(st, val, symbol) ==
  LET s1 == Emit(EmitPh(st, symbol), <<Kw(" ")>>)
      g == getValue(val)
  IN IF g.err # "none" THEN Throw(s1, g.err) ELSE Push(s1, g.v)

OpPair(st, pair, symbol) ==
  LET neg == CharAt0(pair.op) = "-"
      o == IF neg THEN Substring1(pair.op) ELSE pair.op
      s0 == IF neg THEN [st EXCEPT !.negate = 1] ELSE st
      s1 == IF OperatorsIncludes(o)
              THEN Emit(s0, <<OpText(sqlop[s0.negate + 1][OperatorsIndexOf(o)])>>)
              ELSE Emit(s0, <<OpText("= ")>>)
  IN IF o = <<"is">> THEN Emit(s1, <<Kw("NULL ")>>)
     ELSE IF o = <<"tween">> THEN TweenPair(s1, pair.val, symbol)
     ELSE IF o = <<"in">> THEN InPair(s1, pair.val, symbol)
     ELSE OtherPair(s1, pair.val, symbol)

RECURSIVE PairLoop(_, _, _, _)
PairLoop(st, ops, i, symbol) ==
  IF st.err # "none" \/ i > Len(ops) THEN st
  ELSE PairLoop(OpPair(st, ops[i], symbol), ops, i + 1, symbol)

\* ------------------------------------------------------------------ filters
FilterEntry(st, col, val, columns, symbol) ==
  LET chk == checkCol(col, columns)
  IN IF chk # "none" THEN Throw(st, chk)
     ELSE LET s0 == [st EXCEPT !.negate = 0]
              s1 == Emit(s0, <<(IF IsEmptyText(s0.sql) THEN Kw("WHERE ") ELSE Kw("AND ")),
                               Col(col), Kw(" ")>>)
          IN IF val.t # "object"
               THEN LET s2 == Emit(EmitPh(Emit(s1, <<OpText("= ")>>), symbol), <<Kw(" ")>>)
                        g == getValue(val)
                    IN IF g.err # "none" THEN Throw(s2, g.err) ELSE Push(s2, g.v)
               ELSE PairLoop(s1, val.ops, 1, symbol)

Entry(st, e, columns, symbol) ==
  IF CharAt0(e.key) = "$"
    THEN IF e.key = <<"$", "sort">> THEN SortEntry(st, e.val, columns) ELSE st
    ELSE FilterEntry(st, e.key, e.val, columns, symbol)

RECURSIVE EntryLoop(_, _, _, _, _)
EntryLoop(st, q, i, columns, symbol) ==
  IF st.err # "none" \/ i > Len(q) THEN st
  ELSE EntryLoop(Entry(st, q[i], columns, symbol), q, i + 1, columns, symbol)

\* What the caller gets: the returned object, or the exception and nothing else.
NoRet == [kind |-> "none", sql |-> <<>>, values |-> <<>>]

FinishSortFirst(st) ==
  IF st.err # "none" THEN [kind |-> st.err, sql |-> <<>>, values |-> <<>>]
  ELSE [kind |-> "return", sql |-> st.sort \o st.sql, values |-> st.valueArray]

Finish(st) ==
  IF st.err # "none" THEN [kind |-> st.err, sql |-> <<>>, values |-> <<>>]
  ELSE [kind |-> "return", sql |-> st.sql \o st.sort, values |-> st.valueArray]

uri2sql(q, columns, symbol) == Finish(EntryLoop(Locals0, q, 1, columns, symbol))

\* ------------------------------------------------------------------- inputs
ColA == <<"a">>
ColB == <<"b">>
SortKey == <<"$", "sort">>
TopKey == <<"$", "top">>

AllowLists ==
  { Absent, Given(<<>>), Given(<<[column_name |-> ColA]>>),
    Given(<<[column_name |-> ColA], [column_name |-> ColB]>>) }

Symbols == { <<":">>, <<"?">> }

sP == <<"p">>
sQuote == <<"x", "'">>
sSemi == <<"a", ";", "b">>

ScalarsA ==
  { Str(sP), Str(<<"5">>), Num(7), Str(NULLstr), Str(<<>>), Str(sQuote), Str(sSemi) }

ScalarsB == { Str(sP), Str(<<"5">>), Str(sQuote) }

SortValues ==
  { Str(<<"-", "a", ":", "b">>), Str(<<"a">>), Str(<<"a", ":">>), Str(<<>>),
    Str(<<"5">>), Num(3) }

Neg(o) == <<"-">> \o o

SimpleOps ==
  { <<"eq">>, <<"ne">>, <<"lt">>, <<"lte">>, <<"gt">>, <<"gte">>, <<"like">>,
    <<"foo">> }

TweenValues ==
  { Str(<<"1", "8", ":", "3", "0">>), Str(<<"1", "8">>),
    Str(<<"1", "8", ":", "3", "0", ":", "4", "0">>), Str(<<"1", "8", ":">>),
    Str(<<":", "3", "0">>), Str(sP), Str(<<>>), Str(<<"1", "'", ":", "2">>) }

InValues ==
  { Str(<<"5">>), Str(<<"a", ":", "b", ":", "c">>), Str(<<"a", ":", ":", "b">>),
    Str(sP), Str(<<>>), Str(<<"a", "'", ":", "b">>), Str(<<"1", ":", "2">>) }

Pair(op, val) == [op |-> op, val |-> val]

SinglePairs ==
  { Pair(o, Str(<<"9">>)) : o \in SimpleOps \cup { Neg(o) : o \in SimpleOps } }
  \cup { Pair(<<"like">>, v) : v \in { Str(sQuote), Str(<<>>), Str(NULLstr), Num(1) } }
  \cup { Pair(Neg(<<"ne">>), Str(sSemi)) }
  \cup { Pair(o, v) : o \in { <<"is">>, Neg(<<"is">>) }, v \in { Str(sP), Str(sQuote) } }
  \cup { Pair(<<"tween">>, v) : v \in TweenValues }
  \cup { Pair(Neg(<<"tween">>), v) : v \in { Str(<<"1", "8", ":", "3", "0">>), Str(<<"3">>) } }
  \cup { Pair(<<"in">>, v) : v \in InValues }
  \cup { Pair(Neg(<<"in">>), Str(<<"a", ":", "b", ":", "c">>)) }

\* the pairs combined into sub-objects of several operators
ComposablePairs ==
  { Pair(<<"gt">>, Num(1)), Pair(Neg(<<"lt">>), Str(<<"9">>)),
    Pair(Neg(<<"is">>), Str(sP)), Pair(<<"in">>, Str(<<"a", ":", "b">>)),
    Pair(<<"tween">>, Str(<<"1", "8", ":", "3", "0">>)) }

DistinctOps(ops) == \A i, j \in 1..Len(ops) : i # j => ops[i].op # ops[j].op

SubObjects ==
  { <<p>> : p \in SinglePairs }
  \cup UNION { { ops \in [1..n -> ComposablePairs] : DistinctOps(ops) } : n \in 2..MaxPairs }

EntryOf(key, val) == [key |-> key, val |-> val]

Entries ==
  { EntryOf(ColA, v) : v \in ScalarsA \cup { Obj(ops) : ops \in SubObjects } }
  \cup { EntryOf(ColB, v) : v \in ScalarsB }
  \cup { EntryOf(SortKey, v) : v \in SortValues }
  \cup { EntryOf(TopKey, Str(<<"1">>)) }

\* a query object holds a key once; the model holds at most one directive
Slot(e) == IF CharAt0(e.key) = "$" THEN "$" ELSE e.key[1]

FreeEntries(q) == { e \in Entries : \A i \in 1..Len(q) : Slot(q[i]) # Slot(e) }

RECURSIVE QueriesOfLen(_)
QueriesOfLen(n) ==
  IF n = 0 THEN { <<>> }
  ELSE UNION { { Append(q, e) : e \in FreeEntries(q) } : q \in QueriesOfLen(n - 1) }

Queries == UNION { QueriesOfLen(n) : n \in 0..MaxEntries }

\* -------------------------------------------------------------------- state
VARIABLES
  subs,       \* the module variable subs
  lastSym,    \* argument of the most recent setsubs, <<>> before the first
  earlier,    \* placeholders emitted by the uri2sql call before the last one
  query,      \* arguments of the uri2sql call whose outcome the caller holds
  columns,
  ret         \* that outcome, NoRet when the caller holds none

vars == <<subs, lastSym, earlier, query, columns, ret>>

Init ==
  /\ subs = <<"$">>
  /\ lastSym = <<>>
  /\ earlier = FALSE
  /\ query = <<>>
  /\ columns = Absent
  /\ ret = NoRet

setsubs(symbol) == subs' = symbol

SetSubs ==
  \E symbol \in Symbols :
    /\ setsubs(symbol)
    /\ lastSym' = symbol
    /\ query' = <<>>
    /\ columns' = Absent
    /\ ret' = NoRet
    /\ UNCHANGED earlier

HasPh(r) == \E i \in 1..Len(r.sql) : r.sql[i].k = "ph"

Uri2sql ==
  /\ ret = NoRet
  /\ \E q \in Queries, c \in AllowLists :
       /\ query' = q
       /\ columns' = c
       /\ ret' = uri2sql(q, c, subs)
  /\ UNCHANGED <<subs, lastSym, earlier>>

\* the caller takes the outcome (hands the result to the database layer)
Consume ==
  /\ ret # NoRet
  /\ earlier' = (earlier \/ HasPh(ret))
  /\ query' = <<>>
  /\ columns' = Absent
  /\ ret' = NoRet
  /\ UNCHANGED <<subs, lastSym>>

Next == SetSubs \/ Uri2sql \/ Consume

Spec == Init /\ [][Next]_vars

\* ------------------------------------------------------ reading an outcome
IsPh(f) == f.k = "ph"
IsOp(f) == f.k = "op"
IsCol(f) == f.k = "col"
IsFilterEntry(e) == CharAt0(e.key) # "$"
IsSortEntry(e) == e.key = SortKey

Called == ret.kind # "none"
Returns == ret.kind = "return"
PhsOf(sql) == SelectSeq(sql, IsPh)
HasKw(sql, text) == \E i \in 1..Len(sql) : sql[i] = Kw(text)
HasOpText(sql, text) == \E i \in 1..Len(sql) : sql[i] = OpText(text)

OpenWorld == columns = Given(<<>>)
InList(name, cols) == \E i \in 1..Len(cols.recs) : cols.recs[i].column_name = name

BadText(s) == Includes(s, "'") \/ Includes(s, ";")
BareOp(op) == IF CharAt0(op) = "-" THEN Substring1(op) ELSE op

\* the query is one column with one operator pair whose bare operator is o
OnePair(o) ==
  /\ Len(query) = 1
  /\ IsFilterEntry(query[1])
  /\ query[1].val.t = "object"
  /\ Len(query[1].val.ops) = 1
  /\ BareOp(query[1].val.ops[1].op) = o
ThePair == query[1].val.ops[1]

\* ---------------------------------------------------------------------- C1
\* C1: in every returned result the number of placeholders in sql equals
\* values.length and the placeholder numbers, left to right, are 1, 2, ...,
\* values.length (plain equality, single-value operators, both ends of
\* tween, every element of in; is/-is take no number).
C1_PlaceholdersMatchValues ==
  Returns =>
    /\ Len(PhsOf(ret.sql)) = Len(ret.values)
    /\ \A i \in 1..Len(PhsOf(ret.sql)) : PhsOf(ret.sql)[i].n = i

C1_Witness ==
  /\ Returns
  /\ Len(ret.values) = 3
  /\ HasOpText(ret.sql, "IS NOT ")
  /\ HasOpText(ret.sql, "IN (")

C1_WitnessTween ==
  /\ Returns
  /\ Len(ret.values) = 3
  /\ HasOpText(ret.sql, "BETWEEN ")

\* ---------------------------------------------------------------------- C3
\* a string with ' or ; sits where the code binds a value: a plain scalar, or
\* the value of an operator other than is/-is (tween and in lists included)
HasBadBindValue(q) ==
  \E i \in 1..Len(q) :
    /\ IsFilterEntry(q[i])
    /\ \/ q[i].val.t = "string" /\ BadText(q[i].val.s)
       \/ /\ q[i].val.t = "object"
          /\ \E j \in 1..Len(q[i].val.ops) :
               /\ BareOp(q[i].val.ops[j].op) # <<"is">>
               /\ q[i].val.ops[j].val.t = "string"
               /\ BadText(q[i].val.ops[j].val.s)

\* C3: no string of a returned values array holds ' or ;.  A query with such
\* a string as a plain value, an operator value or a tween/in segment never
\* returns, and when that value is the only thing in the query the failure is
\* InvalidValue.
C3_NoQuoteOrSemicolonBound ==
  /\ Returns =>
       \A i \in 1..Len(ret.values) :
         ret.values[i].t = "string" => ~BadText(ret.values[i].s)
  /\ (Called /\ HasBadBindValue(query)) => ~Returns
  /\ ( /\ Called
       /\ OpenWorld
       /\ Len(query) = 1
       /\ HasBadBindValue(query)
       /\ Len(query[1].val.ops) <= 1 )
     => ret.kind = "InvalidValue"

C3_Witness ==
  /\ OpenWorld
  /\ OnePair(<<"in">>)
  /\ BadText(ThePair.val.s)
  /\ ret.kind = "InvalidValue"

\* ---------------------------------------------------------------------- C8
SymbolInForce == IF lastSym = <<>> THEN <<"$">> ELSE lastSym

\* C8: the symbol is "$" until the first setsubs and the argument of the most
\* recent setsubs afterwards, a uri2sql call (returning or failing) leaves it
\* so, every placeholder of a result carries the symbol in force at the call,
\* and the numbers of every call start at 1 whatever was called before.
C8_SymbolFrame ==
  /\ subs = SymbolInForce
  /\ Returns =>
       /\ \A i \in 1..Len(ret.sql) : IsPh(ret.sql[i]) => ret.sql[i].s = SymbolInForce
       /\ HasPh(ret) => PhsOf(ret.sql)[1].n = 1

C8_Witness ==
  /\ earlier
  /\ lastSym = <<"?">>
  /\ Returns
  /\ Len(PhsOf(ret.sql)) >= 2

C8_WitnessFailedCall ==
  /\ lastSym = <<":">>
  /\ Called
  /\ ~Returns

\* --------------------------------------------------------------------- C10
FilterKeys(q) == SelectSeq(q, IsFilterEntry)
SortEntries(q) == SelectSeq(q, IsSortEntry)
WithoutDirectives(q) == FilterKeys(q)

RECURSIVE SortText(_, _)
SortText(segs, i) ==
  IF i > Len(segs) THEN <<>>
  ELSE <<(IF i = 1 THEN Kw("ORDER BY ") ELSE Kw(", "))>>
       \o (IF CharAt0(segs[i]) = "-"
             THEN <<Col(Substring1(segs[i])), Kw(" DESC")>>
             ELSE <<Col(segs[i])>>)
       \o SortText(segs, i + 1)

ExpectedSort(q) ==
  IF SortEntries(q) = <<>> THEN <<>>
  ELSE SortText(Split(SortEntries(q)[1].val.s), 1)

\* the fragments before the sort text
FilterPart(sql) ==
  IF HasKw(sql, "ORDER BY ")
    THEN SubSeq(sql, 1, (CHOOSE i \in 1..Len(sql) : sql[i] = Kw("ORDER BY ")) - 1)
    ELSE sql

\* the connective in front of the k-th column name of the filter text
ConnectiveOf(sql, k) ==
  LET i == CHOOSE j \in 1..Len(sql) :
             IsCol(sql[j]) /\ Len(SelectSeq(SubSeq(sql, 1, j), IsCol)) = k
  IN IF i = 1 THEN Kw("") ELSE sql[i - 1]

\* C10: in a returned sql the filters stand in the iteration order of the
\* query, the first behind "WHERE " and each later column behind "AND "; the
\* sort text ("ORDER BY ", the $sort segments in order joined by ", ", " DESC"
\* after a segment that had a leading "-") follows all filter text wherever
\* $sort sits; $sort changes neither the filter text nor values; no filter
\* and no $sort gives sql "" and values [].
C10_ClauseOrder ==
  Returns =>
    LET filt == FilterPart(ret.sql)
        cols == SelectSeq(filt, IsCol)
        keys == FilterKeys(query)
        bare == uri2sql(WithoutDirectives(query), columns, subs)
    IN /\ ret.sql = filt \o ExpectedSort(query)
       /\ ~HasKw(filt, " DESC")
       /\ Len(cols) = Len(keys)
       /\ \A k \in 1..Len(cols) :
            /\ cols[k].s = keys[k].key
            /\ ConnectiveOf(filt, k) = (IF k = 1 THEN Kw("WHERE ") ELSE Kw("AND "))
       /\ keys # <<>> => filt[1] = Kw("WHERE ")
       /\ bare.kind = "return" /\ bare.sql = filt /\ bare.values = ret.values
       /\ (keys = <<>> /\ SortEntries(query) = <<>>) =>
            ret.sql = <<>> /\ ret.values = <<>>

C10_Witness ==
  /\ Returns
  /\ Len(query) = 2
  /\ query[1].key = SortKey
  /\ query[2].key = ColA
  /\ HasKw(ret.sql, " DESC")
  /\ HasKw(ret.sql, ", ")
  /\ ret.sql[1] = Kw("WHERE ")

\* ---------------------------------------------------------------------- C2
\* a filter column, or a $sort segment without its leading "-", that the
\* allow-list does not hold
HasUnknownColumn(q, cols) ==
  \E i \in 1..Len(q) :
    \/ IsFilterEntry(q[i]) /\ ~InList(q[i].key, cols)
    \/ /\ IsSortEntry(q[i])
       /\ q[i].val.t = "string"
       /\ \E k \in 1..Len(Split(q[i].val.s)) :
            LET seg == Split(q[i].val.s)[k]
            IN ~InList(IF CharAt0(seg) = "-" THEN Substring1(seg) ELSE seg, cols)

\* with a non-empty allow-list a query naming a column outside it does not
\* return, and every column name of a returned sql is in the list
C2_ClosedWorld ==
  (Called /\ columns.given /\ columns.recs # <<>>) =>
    /\ HasUnknownColumn(query, columns) => ~Returns
    /\ Returns => \A i \in 1..Len(ret.sql) :
                    IsCol(ret.sql[i]) => InList(ret.sql[i].s, columns)

\* with an empty allow-list, or none supplied, no column is rejected and the
\* outcome is the one of the open world
C2_NoListIsOpenWorld ==
  (Called /\ (~columns.given \/ columns.recs = <<>>)) =>
    /\ ret.kind # "UnknownColumn"
    /\ ret = uri2sql(query, Given(<<>>), subs)

\* C2: allow-list enforcement: closed world under a non-empty allow-list,
\* open world under an empty or absent one.
C2_AllowList == C2_ClosedWorld /\ C2_NoListIsOpenWorld

\* ---------------------------------------------------------------------- C4
RECURSIVE PairOps(_, _)
PairOps(ops, j) ==
  IF j > Len(ops) THEN <<>>
  ELSE LET o == BareOp(ops[j].op)
           row == IF CharAt0(ops[j].op) = "-" THEN 2 ELSE 1
       IN <<(IF OperatorsIncludes(o) THEN OpText(sqlop[row][OperatorsIndexOf(o)])
                                     ELSE OpText("= "))>>
          \o PairOps(ops, j + 1)

RECURSIVE ExpectedOps(_, _)
ExpectedOps(q, i) ==
  IF i > Len(q) THEN <<>>
  ELSE (IF ~IsFilterEntry(q[i]) THEN <<>>
        ELSE IF q[i].val.t # "object" THEN <<OpText("= ")>>
        ELSE PairOps(q[i].val.ops, 1))
       \o ExpectedOps(q, i + 1)

\* C4: the operator text of every pair is the negated row of the table
\* exactly when the pair's own key starts with "-", whatever the other pairs
\* of the column are.
C4_OwnKeyDecidesNegation ==
  Returns => SelectSeq(ret.sql, IsOp) = ExpectedOps(query, 1)

\* the same for sub-objects of one pair, where no other key can interfere
C4_SinglePairNegation ==
  (Returns /\ \A i \in 1..Len(query) : Len(query[i].val.ops) <= 1)
    => SelectSeq(ret.sql, IsOp) = ExpectedOps(query, 1)

\* ---------------------------------------------------------------------- C5
TwoNonEmpty(s) ==
  /\ Len(Split(s)) = 2
  /\ Split(s)[1] # <<>>
  /\ Split(s)[2] # <<>>

\* C5: a tween value must split on ":" into exactly two non-empty segments;
\* then the text is <symbol>n AND <symbol>n+1 and the two values are pushed
\* in order; one segment, three or more, or an empty first or second segment
\* fails with MissingValue.
C5_TweenExactlyTwo ==
  /\ Returns =>
       \A i \in 1..Len(query) : \A j \in 1..Len(query[i].val.ops) :
         (IsFilterEntry(query[i]) /\ BareOp(query[i].val.ops[j].op) = <<"tween">>)
           => TwoNonEmpty(query[i].val.ops[j].val.s)
  /\ (Called /\ OpenWorld /\ OnePair(<<"tween">>)) =>
       IF TwoNonEmpty(ThePair.val.s)
         THEN BadText(ThePair.val.s)
              \/ /\ Returns
                 /\ SubSeq(ret.sql, 5, 8)
                      = <<Placeholder(subs, 1), Kw(" AND "), Placeholder(subs, 2), Kw(" ")>>
                 /\ Len(ret.values) = 2
                 /\ ret.values[1].s = Split(ThePair.val.s)[1]
                 /\ ret.values[2].s = Split(ThePair.val.s)[2]
         ELSE ret.kind = "MissingValue"

\* the part of C5 about well-formed values and values of one non-numeric
\* segment
C5_TweenWellFormed ==
  (Called /\ OpenWorld /\ OnePair(<<"tween">>)) =>
    /\ (TwoNonEmpty(ThePair.val.s) /\ ~BadText(ThePair.val.s)) =>
         /\ Returns
         /\ SubSeq(ret.sql, 5, 8)
              = <<Placeholder(subs, 1), Kw(" AND "), Placeholder(subs, 2), Kw(" ")>>
         /\ Len(ret.values) = 2
         /\ ret.values[1].s = Split(ThePair.val.s)[1]
         /\ ret.values[2].s = Split(ThePair.val.s)[2]
    /\ (Len(Split(ThePair.val.s)) = 1 /\ StringToNumber(ThePair.val.s).nan
        /\ ~BadText(ThePair.val.s)) => ret.kind = "MissingValue"

\* ---------------------------------------------------------------------- C6
RECURSIVE Normalised(_, _)
Normalised(segs, i) ==
  IF i > Len(segs) THEN <<>>
  ELSE <<getValue(Str(segs[i])).v>> \o Normalised(segs, i + 1)

\* C6: an in value of k >= 1 non-empty valid segments (a single numeric one
\* such as "5" included) returns k consecutive placeholders between "IN ("
\* and ") " and k values in segment order, each normalised on its own; an
\* empty segment fails with MissingValue.
C6_InList ==
  (Called /\ OpenWorld /\ OnePair(<<"in">>) /\ ThePair.val.t = "string") =>
    LET segs == Split(ThePair.val.s)
    IN IF \E i \in 1..Len(segs) : segs[i] = <<>> THEN ret.kind = "MissingValue"
       ELSE BadText(ThePair.val.s)
            \/ /\ Returns
               /\ Len(PhsOf(ret.sql)) = Len(segs)
               /\ ret.sql[Len(ret.sql)] = Kw(") ")
               /\ ret.values = Normalised(segs, 1)

\* what the code does for lists of non-numeric, non-empty segments
C6_InListOfStrings ==
  ( /\ Called /\ OpenWorld /\ OnePair(<<"in">>)
    /\ ~BadText(ThePair.val.s)
    /\ \A i \in 1..Len(Split(ThePair.val.s)) :
         Split(ThePair.val.s)[i] # <<>> /\ StringToNumber(Split(ThePair.val.s)[i]).nan )
  => /\ Returns
     /\ Len(PhsOf(ret.sql)) = Len(Split(ThePair.val.s))
     /\ ret.values = Normalised(Split(ThePair.val.s), 1)

\* ---------------------------------------------------------------------- C7
\* C7: every pair of a sub-object gives a predicate of its own, joined by
\* AND: each operator text stands behind "WHERE " or "AND ", the column name
\* and a blank; one bind value per placeholder.
C7_PairsJoinedByAnd ==
  Returns =>
    /\ \A i \in 1..Len(ret.sql) :
         IsOp(ret.sql[i]) =>
           /\ i >= 4
           /\ ret.sql[i - 1] = Kw(" ")
           /\ IsCol(ret.sql[i - 2])
           /\ ret.sql[i - 3] \in {Kw("WHERE "), Kw("AND ")}
    /\ Len(PhsOf(ret.sql)) = Len(ret.values)

\* the same for sub-objects of one pair
C7_SinglePairWellFormed ==
  (Returns /\ \A i \in 1..Len(query) : Len(query[i].val.ops) <= 1) =>
    \A i \in 1..Len(ret.sql) :
      IsOp(ret.sql[i]) =>
        /\ i >= 4
        /\ ret.sql[i - 1] = Kw(" ")
        /\ IsCol(ret.sql[i - 2])
        /\ ret.sql[i - 3] \in {Kw("WHERE "), Kw("AND ")}

\* ---------------------------------------------------------------------- C9
FailureKinds == {"MissingValue", "InvalidValue", "UnknownColumn", "InvalidSort"}

\* C9: with an allow-list supplied, a call returns a complete result or fails
\* with one of the four kinds and hands back no sql and no values; there is
\* no other outcome.
C9_FourFailureKinds ==
  (Called /\ columns.given) =>
    /\ ret.kind \in FailureKinds \cup {"return"}
    /\ ~Returns => ret.sql = <<>> /\ ret.values = <<>>

====
